---- MODULE Spec2Model ----
(***************************************************************************)
(* alphabot-news-digest (src/digest.js): one run of main() fetches every   *)
(* configured feed in list order, extracts items from the document with    *)
(* extractItems, keeps the items inside the time window, then sorts,       *)
(* deduplicates by url and hands the result to the output.                 *)
(*                                                                         *)
(* Representation.                                                         *)
(*  - A feed document is the sequence of its <item>/<entry> blocks, each   *)
(*    block being the fields the regular expressions of extractItems pull  *)
(*    out of it (tag, trimmed title text, link text, raw date text).       *)
(*  - A raw date is {absent, empty, garbage, date}; a date carries its     *)
(*    wall-clock milliseconds and its zone offset in hours.                *)
(*  - A number that may be NaN, and a published value that may be null, is *)
(*    a sequence: <<>> is NaN / null, <<n>> is the number n.  An ISO-8601  *)
(*    string stands for the UTC epoch milliseconds it denotes.             *)
(*  - A string the program takes apart (an argument, a title) is the       *)
(*    sequence of its UTF-16 code units; Text writes one from characters.  *)
(*  - The network is a function from url to the answer that url gives; it  *)
(*    is discovered request by request and does not change afterwards.     *)
(***************************************************************************)
EXTENDS Integers, Sequences, FiniteSets, TLC

VARIABLES
    args,       \* process.argv.slice(2)
    net,        \* url -> answer of the server at that url ("unknown" until asked)
    run,        \* "first" or "second" invocation of the program
    pc,         \* position of main(): "loop", "await", "done", "exit"; "extract" for extractItems alone
    idx,        \* 1-based position of the for-of loop over feeds
    allItems,   \* main: let allItems
    errors,     \* main: let errors
    fUrl,       \* fetch: url of the request in flight
    redirects,  \* fetch: the redirects parameter of the call in flight
    requests,   \* fetch: mod.get calls issued for the current feed
    fState,     \* fetch promise: "idle", "pending", "resolved", "rejected"
    fResult,    \* fetch promise: the body it resolved with or the message it rejected with
    phase,      \* fetch: "none", "request" (no answer yet), "body" (200 received, 'end' awaited), "closed"
    concat,     \* history: allItems as the loop left it, before the sort
    output,     \* what main() printed
    prev,       \* history: what the first invocation printed
    xml,        \* extractItems alone: its argument
    extracted   \* extractItems alone: its completion

vars == <<args, net, run, pc, idx, allItems, errors, fUrl, redirects, requests,
          fState, fResult, phase, concat, output, prev, xml, extracted>>

(***************************************************************************)
(* Values                                                                  *)
(***************************************************************************)
NaN == <<>>

Null == <<>>

Num(n) == <<n>>

MsPerHour == 60 * 60 * 1000

\* Date.now() of the run, in epoch milliseconds.
NOW == 48 * MsPerHour

MaxFeedLen == 2

MaxDocLen == 2

MaxItems == 4

MaxRequests == 6

REDIRECTS == 3

HTTP_OK == 200

URL_A == "http://a.example/rss"

URL_B == "https://b.example/atom"

URLS == {URL_A, URL_B}

\* The feed list (DEFAULT_FEEDS, or the --feeds file): the second feed has no
\* category of its own.
FEEDS == << [name |-> "A", url |-> URL_A, category |-> "tech"],
            [name |-> "B", url |-> URL_B, category |-> ""] >>

SeqsUpTo(S, n) == UNION {[1..k -> S] : k \in 0..n}

\* The ASCII characters of code units 32 to 95, in order.
Chars ==
    << " ", "!", "\"", "#", "$", "%", "&", "'", "(", ")", "*", "+", ",", "-", ".", "/",
       "0", "1", "2", "3", "4", "5", "6", "7", "8", "9", ":", ";", "<", "=", ">", "?",
       "@", "A", "B", "C", "D", "E", "F", "G", "H", "I", "J", "K", "L", "M", "N", "O",
       "P", "Q", "R", "S", "T", "U", "V", "W", "X", "Y", "Z", "[", "\\", "]", "^", "_" >>

\* The small letters, code units 97 to 122, in order.
Letters ==
    << "a", "b", "c", "d", "e", "f", "g", "h", "i", "j", "k", "l", "m",
       "n", "o", "p", "q", "r", "s", "t", "u", "v", "w", "x", "y", "z" >>

\* The code unit of a character.
CodeOf(c) ==
    IF \E i \in 1..Len(Letters) : Letters[i] = c
    THEN 96 + CHOOSE i \in 1..Len(Letters) : Letters[i] = c
    ELSE 31 + CHOOSE i \in 1..Len(Chars) : Chars[i] = c

\* The string made of the given characters, as code units.
Text(cs) == [i \in 1..Len(cs) |-> CodeOf(cs[i])]

(***************************************************************************)
(* CLI arguments                                                           *)
(***************************************************************************)
T_HOURS == Text(<<"h", "o", "u", "r", "s">>)

T_TOP == Text(<<"t", "o", "p">>)

T_DEDUP == Text(<<"d", "e", "d", "u", "p">>)

T_DRY_RUN == Text(<<"d", "r", "y", "-", "r", "u", "n">>)

\* The token "--" followed by the name.
Flag(name) == Text(<<"-", "-">>) \o name

\* Array.prototype.indexOf, 1-based; 0 stands for -1.
IndexOf(s, x) ==
    IF \E i \in 1..Len(s) : s[i] = x
    THEN CHOOSE i \in 1..Len(s) : s[i] = x /\ \A j \in 1..(i - 1) : s[j] # x
    ELSE 0

\* args[idx + 1] || def: a missing or empty argument gives the default.
getArg(name, def) ==
    LET i == IndexOf(args, Flag(name))
    IN  IF i = 0 THEN def
        ELSE IF i + 1 <= Len(args) /\ args[i + 1] # <<>> THEN args[i + 1]
        ELSE def

hasFlag(name) == \E i \in 1..Len(args) : args[i] = Flag(name)

IsDigit(c) == c >= 48 /\ c <= 57

\* The white space parseInt skips (tab, line terminators, space, no-break
\* space, byte order mark).
IsSpace(c) == c \in {9, 10, 11, 12, 13, 32, 160, 5760, 8232, 8233, 8239, 8287, 12288, 65279}
                  \/ (c >= 8192 /\ c <= 8202)

\* The first position of s from i on that holds no white space.
RECURSIVE SkipSpace(_, _)
SkipSpace(s, i) ==
    IF i <= Len(s) /\ IsSpace(s[i]) THEN SkipSpace(s, i + 1) ELSE i

\* The value of the decimal digits of s from i on, up to the first other
\* code unit, acc being the value of the digits read so far.
RECURSIVE DigitsValue(_, _, _)
DigitsValue(s, i, acc) ==
    IF i <= Len(s) /\ IsDigit(s[i])
    THEN DigitsValue(s, i + 1, 10 * acc + (s[i] - 48))
    ELSE acc

\* parseInt(s, 10): leading white space, an optional sign, then the longest
\* run of decimal digits; NaN when there is no digit.
ParseInt(s) ==
    LET b == SkipSpace(s, 1)
        signed == b <= Len(s) /\ s[b] \in {43, 45}
        d == IF signed THEN b + 1 ELSE b
    IN  IF d <= Len(s) /\ IsDigit(s[d])
        THEN Num((IF signed /\ s[b] = 45 THEN -1 ELSE 1) * DigitsValue(s, d, 0))
        ELSE NaN

HOURS == ParseInt(getArg(T_HOURS, Text(<<"2", "4">>)))

DRY_RUN == hasFlag(T_DRY_RUN)

\* The command lines of the runs.
ARGS == { <<>>,
          <<Flag(T_HOURS), Text(<<"1", "2">>)>>,
          <<Flag(T_HOURS), Text(<<"s", "o", "o", "n">>)>>,
          <<Flag(T_DRY_RUN)>>,
          <<Flag(T_TOP), Text(<<"1">>), Flag(T_HOURS), Text(<<"4", "8">>),
            Flag(T_DEDUP), Text(<<"s", "e", "e", "n", ".", "j", "s", "o", "n">>)>> }

(***************************************************************************)
(* Documents                                                               *)
(***************************************************************************)
Absent == [text |-> "absent", wall |-> 0, tz |-> 0]

Empty == [text |-> "empty", wall |-> 0, tz |-> 0]

Garbage == [text |-> "garbage", wall |-> 0, tz |-> 0]

RawDate(hour, tz) == [text |-> "date", wall |-> hour * MsPerHour, tz |-> tz]

Block(tag, title, link, date) ==
    [tag |-> tag, title |-> title, link |-> link, date |-> date]

HELLO == Text(<<"H", "e", "l", "l", "o">>)

\* R&amp;D &#39;24
ENCODED ==
    Text(<<"R", "&", "a", "m", "p", ";", "D", " ", "&", "#", "3", "9", ";", "2", "4">>)

\* The blocks of the documents the feeds serve.
FeedBlocks ==
    { Block("item", HELLO, "http://x/1", RawDate(31, 1)),
      Block("item", HELLO, "http://x/1", RawDate(50, 0)),
      Block("item", HELLO, "http://x/2", Absent),
      Block("item", HELLO, "http://x/2", Garbage) }

FeedDocs == SeqsUpTo(FeedBlocks, MaxFeedLen)

\* The blocks of the documents given to extractItems alone.
Blocks ==
    { Block(tag, title, link, date) :
        tag \in {"item", "entry"}, title \in {<<>>, ENCODED},
        link \in {"", "http://x/1"},
        date \in {Absent, Empty, Garbage, RawDate(31, 1)} }

Docs == SeqsUpTo(Blocks, MaxDocLen)

(***************************************************************************)
(* extractItems and decodeEntities                                         *)
(***************************************************************************)
\* Whether pat occurs in s at position i.
At(s, i, pat) == i + Len(pat) - 1 <= Len(s) /\ SubSeq(s, i, i + Len(pat) - 1) = pat

\* String.prototype.replace with a global literal pattern: every occurrence
\* of pat, left to right and not overlapping, becomes by; s is read from i on.
RECURSIVE ReplaceFrom(_, _, _, _)
ReplaceFrom(s, i, pat, by) ==
    IF i > Len(s) THEN <<>>
    ELSE IF At(s, i, pat) THEN by \o ReplaceFrom(s, i + Len(pat), pat, by)
    ELSE <<s[i]>> \o ReplaceFrom(s, i + 1, pat, by)

ReplaceAll(s, pat, by) == ReplaceFrom(s, 1, pat, by)

\* The position after the run of digits of s that starts at i.
RECURSIVE DigitsEnd(_, _)
DigitsEnd(s, i) ==
    IF i <= Len(s) /\ IsDigit(s[i]) THEN DigitsEnd(s, i + 1) ELSE i

\* /&#(\d+);/ matches at i: "&#", one digit or more, then ";".
NumericAt(s, i) ==
    /\ At(s, i, <<38, 35>>)
    /\ DigitsEnd(s, i + 2) > i + 2
    /\ DigitsEnd(s, i + 2) <= Len(s)
    /\ s[DigitsEnd(s, i + 2)] = 59

\* String.fromCharCode(n): the code unit n modulo 2^16.
FromCharCode(n) == <<n % 65536>>

\* .replace(/&#(\d+);/g, (_, n) => String.fromCharCode(n)), s read from i on.
RECURSIVE ReplaceNumeric(_, _)
ReplaceNumeric(s, i) ==
    IF i > Len(s) THEN <<>>
    ELSE IF NumericAt(s, i)
         THEN FromCharCode(DigitsValue(s, i + 2, 0))
                  \o ReplaceNumeric(s, DigitsEnd(s, i + 2) + 1)
    ELSE <<s[i]>> \o ReplaceNumeric(s, i + 1)

\* The seven replacements, in the order of the source; code unit 39 is the
\* apostrophe.
decodeEntities(str) ==
    LET amp == ReplaceAll(str, Text(<<"&", "a", "m", "p", ";">>), Text(<<"&">>))
        lt == ReplaceAll(amp, Text(<<"&", "l", "t", ";">>), Text(<<"<">>))
        gt == ReplaceAll(lt, Text(<<"&", "g", "t", ";">>), Text(<<">">>))
        quot == ReplaceAll(gt, Text(<<"&", "q", "u", "o", "t", ";">>), Text(<<"\"">>))
        apos == ReplaceAll(quot, Text(<<"&", "#", "3", "9", ";">>), <<39>>)
        hex == ReplaceAll(apos, Text(<<"&", "#", "x", "2", "7", ";">>), <<39>>)
    IN  ReplaceNumeric(hex, 1)

\* new Date(raw).getTime(): the UTC instant of a date text, NaN for any other text.
DateParse(raw) ==
    IF raw.text = "date" THEN Num(raw.wall - raw.tz * MsPerHour) ELSE NaN

\* A date text is truthy unless the tag is absent or its trimmed text is empty.
Truthy(raw) == raw.text \notin {"absent", "empty"}

Returned(items) == [ok |-> TRUE, items |-> items, error |-> ""]

\* Date.prototype.toISOString throws a RangeError on an invalid date.
Thrown(message) == [ok |-> FALSE, items |-> <<>>, error |-> message]

Item(raw, feedName, category) ==
    [ source |-> feedName,
      category |-> category,
      title |-> decodeEntities(raw.title),
      url |-> raw.link,
      published |-> IF Truthy(raw.date) THEN DateParse(raw.date) ELSE Null ]

\* One of the two for-of loops of extractItems, over the blocks with the given
\* tag, from block i on, items being what was pushed so far.
RECURSIVE ExtractBlocks(_, _, _, _, _, _)
ExtractBlocks(doc, tag, feedName, category, i, items) ==
    IF i > Len(doc) THEN Returned(items)
    ELSE IF doc[i].tag # tag \/ doc[i].title = <<>>
         THEN ExtractBlocks(doc, tag, feedName, category, i + 1, items)
    ELSE IF Truthy(doc[i].date) /\ DateParse(doc[i].date) = NaN
         THEN Thrown("Invalid time value")
    ELSE ExtractBlocks(doc, tag, feedName, category, i + 1,
                       Append(items, Item(doc[i], feedName, category)))

\* The condition under which the Atom loop runs, rss being the completion of
\* the RSS loop.
AtomFallback(doc, rss) == Len(rss.items) = 0

extractItems(doc, feedName, category) ==
    LET rss == ExtractBlocks(doc, "item", feedName, category, 1, <<>>)
    IN  IF ~rss.ok THEN rss
        ELSE IF AtomFallback(doc, rss)
             THEN ExtractBlocks(doc, "entry", feedName, category, 1, <<>>)
        ELSE rss

(***************************************************************************)
(* fetch                                                                   *)
(***************************************************************************)
Msg(text, code, url) == [text |-> text, code |-> code, url |-> url]

Unknown == [kind |-> "unknown", code |-> 0, location |-> "", body |-> <<>>, ending |-> ""]

\* A response: its status, its location header, and how its body goes on
\* after the headers: "end" (the whole body arrives), "stall" (the socket
\* falls idle before the end), "reset" (the connection is reset before the
\* end), "close" (the connection is closed cleanly before the end).
Response(code, location, body, ending) ==
    [kind |-> "response", code |-> code, location |-> location, body |-> body,
     ending |-> ending]

TransportError == [kind |-> "error", code |-> 0, location |-> "", body |-> <<>>, ending |-> ""]

Timeout == [kind |-> "timeout", code |-> 0, location |-> "", body |-> <<>>, ending |-> ""]

\* What a server can answer to one request.
Answers ==
    { Response(HTTP_OK, "", d, "end") : d \in FeedDocs }
    \cup { Response(HTTP_OK, "", <<>>, e) : e \in {"stall", "reset", "close"} }
    \cup { Response(301, l, <<>>, "end") : l \in URLS \cup {""} }
    \cup { Response(404, "", <<>>, "end"), TransportError, Timeout }

Pending == [ok |-> FALSE, body |-> <<>>, error |-> Msg("", 0, "")]

Resolved(body) == [ok |-> TRUE, body |-> body, error |-> Msg("", 0, "")]

Rejected(message) == [ok |-> FALSE, body |-> <<>>, error |-> message]

\* The test of the response callback that makes fetch call itself again.
FollowsRedirect(res, budget) ==
    /\ res.code >= 300
    /\ res.code < 400
    /\ res.location # ""
    /\ budget > 0

\* The server at fUrl answers r: the first answer of a url is any answer, a
\* later one is the same answer.
Answered(r) ==
    /\ fState = "pending"
    /\ phase = "request"
    /\ net[fUrl] \in {Unknown, r}
    /\ net' = [net EXCEPT ![fUrl] = r]

Unfetched == <<args, run, pc, idx, allItems, errors, concat, output, prev, xml, extracted>>

\* Response callback, a redirect with budget left: resolve(fetch(location, redirects - 1)).
FetchRedirect ==
    \E r \in Answers :
        /\ Answered(r)
        /\ r.kind = "response"
        /\ FollowsRedirect(r, redirects)
        /\ requests < MaxRequests
        /\ fUrl' = r.location
        /\ redirects' = redirects - 1
        /\ requests' = requests + 1
        /\ UNCHANGED <<fState, fResult, phase>>
        /\ UNCHANGED Unfetched

\* Response callback, any other status than 200: reject.
FetchStatus ==
    \E r \in Answers :
        /\ Answered(r)
        /\ r.kind = "response"
        /\ ~FollowsRedirect(r, redirects)
        /\ r.code # HTTP_OK
        /\ fState' = "rejected"
        /\ fResult' = Rejected(Msg("HTTP", r.code, fUrl))
        /\ phase' = "none"
        /\ UNCHANGED <<fUrl, redirects, requests>>
        /\ UNCHANGED Unfetched

\* Response callback, status 200: the 'data' and 'end' listeners are
\* registered and the callback returns; the promise stays pending.
FetchBody ==
    \E r \in Answers :
        /\ Answered(r)
        /\ r.kind = "response"
        /\ ~FollowsRedirect(r, redirects)
        /\ r.code = HTTP_OK
        /\ phase' = "body"
        /\ UNCHANGED <<fUrl, redirects, requests, fState, fResult>>
        /\ UNCHANGED Unfetched

\* res 'end': resolve(data).
FetchEnd ==
    /\ fState = "pending"
    /\ phase = "body"
    /\ net[fUrl].ending = "end"
    /\ fState' = "resolved"
    /\ fResult' = Resolved(net[fUrl].body)
    /\ phase' = "none"
    /\ UNCHANGED <<net, fUrl, redirects, requests>>
    /\ UNCHANGED Unfetched

\* req 'timeout' while the body is being read: req.destroy() and reject.
FetchStall ==
    /\ fState = "pending"
    /\ phase = "body"
    /\ net[fUrl].ending = "stall"
    /\ fState' = "rejected"
    /\ fResult' = Rejected(Msg("Timeout", 0, fUrl))
    /\ phase' = "none"
    /\ UNCHANGED <<net, fUrl, redirects, requests>>
    /\ UNCHANGED Unfetched

\* req 'error' while the body is being read (the connection is reset): reject.
FetchReset ==
    /\ fState = "pending"
    /\ phase = "body"
    /\ net[fUrl].ending = "reset"
    /\ fState' = "rejected"
    /\ fResult' = Rejected(Msg("ECONNRESET", 0, ""))
    /\ phase' = "none"
    /\ UNCHANGED <<net, fUrl, redirects, requests>>
    /\ UNCHANGED Unfetched

\* The connection closes cleanly before the body ends: res gets 'aborted', which
\* fetch does not listen to; neither 'end' nor an event of req follows.
FetchClose ==
    /\ fState = "pending"
    /\ phase = "body"
    /\ net[fUrl].ending = "close"
    /\ phase' = "closed"
    /\ UNCHANGED <<net, fUrl, redirects, requests, fState, fResult>>
    /\ UNCHANGED Unfetched

\* req 'error' before any response.
FetchError ==
    \E r \in Answers :
        /\ Answered(r)
        /\ r.kind = "error"
        /\ fState' = "rejected"
        /\ fResult' = Rejected(Msg("ECONNREFUSED", 0, ""))
        /\ phase' = "none"
        /\ UNCHANGED <<fUrl, redirects, requests>>
        /\ UNCHANGED Unfetched

\* req 'timeout' before any response.
FetchTimeout ==
    \E r \in Answers :
        /\ Answered(r)
        /\ r.kind = "timeout"
        /\ fState' = "rejected"
        /\ fResult' = Rejected(Msg("Timeout", 0, fUrl))
        /\ phase' = "none"
        /\ UNCHANGED <<fUrl, redirects, requests>>
        /\ UNCHANGED Unfetched

Fetch ==
    \/ FetchRedirect \/ FetchStatus \/ FetchBody \/ FetchEnd \/ FetchStall
    \/ FetchReset \/ FetchClose \/ FetchError \/ FetchTimeout

(***************************************************************************)
(* The time window, the sort and the deduplication of main()               *)
(***************************************************************************)
\* new Date(Date.now() - HOURS * 60 * 60 * 1000): an Invalid Date when HOURS is NaN.
Cutoff == IF HOURS = NaN THEN NaN ELSE Num(NOW - HOURS[1] * MsPerHour)

\* Mutant: an item without a date is not kept.
InWindowDatedOnly(item, cutoff) ==
    /\ item.published # Null
    /\ cutoff # NaN
    /\ item.published[1] >= cutoff[1]

\* The callback of items.filter: a comparison with an Invalid Date is false.
InWindow(item, cutoff) ==
    \/ item.published = Null
    \/ cutoff # NaN /\ item.published[1] >= cutoff[1]

Recent(items, cutoff) ==
    LET Keep(item) == InWindow(item, cutoff)
    IN  SelectSeq(items, Keep)

\* Mutant: the operands of the subtraction swapped.
CompareOldestFirst(a, b) ==
    IF a.published = Null THEN 1
    ELSE IF b.published = Null THEN -1
    ELSE a.published[1] - b.published[1]

\* The comparator given to allItems.sort.
Compare(a, b) ==
    IF a.published = Null THEN 1
    ELSE IF b.published = Null THEN -1
    ELSE b.published[1] - a.published[1]

Reverse(s) == [i \in 1..Len(s) |-> s[Len(s) + 1 - i]]

\* Array.prototype.sort of node (V8) on an array shorter than 64: the run that
\* starts the array is found (and reversed when strictly descending), then
\* every later element is put in place by binary insertion.
RECURSIVE RunEnd(_, _, _)
RunEnd(s, descending, i) ==
    IF i > Len(s) THEN i - 1
    ELSE IF descending /\ Compare(s[i], s[i - 1]) >= 0 THEN i - 1
    ELSE IF ~descending /\ Compare(s[i], s[i - 1]) < 0 THEN i - 1
    ELSE RunEnd(s, descending, i + 1)

CountAndMakeRun(s) ==
    IF Len(s) < 2 THEN [run |-> Len(s), arr |-> s]
    ELSE LET descending == Compare(s[2], s[1]) < 0
             n == RunEnd(s, descending, 3)
         IN  [ run |-> n,
               arr |-> IF descending
                       THEN Reverse(SubSeq(s, 1, n)) \o SubSeq(s, n + 1, Len(s))
                       ELSE s ]

\* The place of pivot among s[left+1 .. right], 0-based as in V8.
RECURSIVE BinarySearch(_, _, _, _)
BinarySearch(s, pivot, left, right) ==
    IF left >= right THEN left
    ELSE LET mid == left + ((right - left) \div 2)
         IN  IF Compare(pivot, s[mid + 1]) < 0
             THEN BinarySearch(s, pivot, left, mid)
             ELSE BinarySearch(s, pivot, mid + 1, right)

RECURSIVE BinaryInsertionSort(_, _)
BinaryInsertionSort(s, start) ==
    IF start >= Len(s) THEN s
    ELSE LET pivot == s[start + 1]
             pos == BinarySearch(s, pivot, 0, start)
         IN  BinaryInsertionSort(
                 SubSeq(s, 1, pos) \o <<pivot>> \o SubSeq(s, pos + 1, start)
                     \o SubSeq(s, start + 2, Len(s)),
                 start + 1)

ArraySort(s) ==
    LET r == CountAndMakeRun(s)
    IN  BinaryInsertionSort(r.arr, r.run)

\* Mutant: the seen set is not consulted.
DroppedIfEmpty(item, seen) == item.url = ""

\* The callback of the deduplicating filter: whether the item is dropped.
Dropped(item, seen) == item.url = "" \/ item.url \in seen

RECURSIVE DedupeFrom(_, _, _, _)
DedupeFrom(s, i, seen, kept) ==
    IF i > Len(s) THEN kept
    ELSE IF Dropped(s[i], seen) THEN DedupeFrom(s, i + 1, seen, kept)
    ELSE DedupeFrom(s, i + 1, seen \cup {s[i].url}, Append(kept, s[i]))

Dedupe(s) == DedupeFrom(s, 1, {}, <<>>)

\* Lines 167-180 of main: the sort, then the deduplication.
SortAndDedupe(items) == Dedupe(ArraySort(items))

(***************************************************************************)
(* main                                                                    *)
(***************************************************************************)
NoOutput == [printed |-> "nothing", hours |-> NaN, count |-> 0, errors |-> <<>>, items |-> <<>>]

\* The dry run prints the totals only; every format prints the items.
Printed(items, errs) ==
    IF DRY_RUN
    THEN [printed |-> "total", hours |-> NaN, count |-> Len(items),
          errors |-> <<>>, items |-> <<>>]
    ELSE [printed |-> "digest", hours |-> HOURS, count |-> Len(items),
          errors |-> errs, items |-> items]

Category(feed) == IF feed.category # "" THEN feed.category ELSE "general"

ErrorEntry(feed, message) == [feed |-> feed.name, error |-> message]

FetchVars == <<fUrl, redirects, requests, fState, fResult, phase>>

\* const xml = await fetch(feed.url)
CallFetch ==
    /\ pc = "loop"
    /\ idx <= Len(FEEDS)
    /\ pc' = "await"
    /\ fUrl' = FEEDS[idx].url
    /\ redirects' = REDIRECTS
    /\ requests' = 1
    /\ fState' = "pending"
    /\ fResult' = Pending
    /\ phase' = "request"
    /\ UNCHANGED <<args, net, run, idx, allItems, errors, concat, output, prev, xml, extracted>>

\* The rest of the try block, and the catch block when extractItems throws.
FeedResolved ==
    /\ pc = "await"
    /\ fState = "resolved"
    /\ LET feed == FEEDS[idx]
           r == extractItems(fResult.body, feed.name, Category(feed))
       IN  IF r.ok
           THEN /\ allItems' = allItems \o Recent(r.items, Cutoff)
                /\ errors' = errors
           ELSE /\ errors' = Append(errors, ErrorEntry(feed, Msg(r.error, 0, "")))
                /\ allItems' = allItems
    /\ idx' = idx + 1
    /\ pc' = "loop"
    /\ fState' = "idle"
    /\ UNCHANGED <<args, net, run, fUrl, redirects, requests, fResult, phase, concat, output, prev, xml, extracted>>

\* The catch block when fetch rejects.
FeedRejected ==
    /\ pc = "await"
    /\ fState = "rejected"
    /\ errors' = Append(errors, ErrorEntry(FEEDS[idx], fResult.error))
    /\ idx' = idx + 1
    /\ pc' = "loop"
    /\ fState' = "idle"
    /\ UNCHANGED <<args, net, run, allItems, fUrl, redirects, requests, fResult, phase, concat, output, prev, xml, extracted>>

\* After the loop: sort, deduplicate, print.
Finish ==
    /\ pc = "loop"
    /\ idx > Len(FEEDS)
    /\ concat' = allItems
    /\ allItems' = SortAndDedupe(allItems)
    /\ output' = Printed(allItems', errors)
    /\ pc' = "done"
    /\ UNCHANGED <<args, net, run, idx, errors, FetchVars, prev, xml, extracted>>

\* The fetch awaited can no longer settle and nothing else is scheduled:
\* node leaves the event loop and the process ends with exit code 0, main()
\* still suspended at its await, nothing printed.
Exit ==
    /\ pc = "await"
    /\ fState = "pending"
    /\ phase = "closed"
    /\ pc' = "exit"
    /\ UNCHANGED <<args, net, run, idx, allItems, errors, FetchVars, concat, output, prev, xml, extracted>>

\* The program is started again with the same arguments; the feeds still
\* answer what they answered.
Rerun ==
    /\ pc \in {"done", "exit"}
    /\ run = "first"
    /\ run' = "second"
    /\ prev' = output
    /\ pc' = "loop"
    /\ idx' = 1
    /\ allItems' = <<>>
    /\ errors' = <<>>
    /\ concat' = <<>>
    /\ output' = NoOutput
    /\ fUrl' = ""
    /\ redirects' = REDIRECTS
    /\ requests' = 0
    /\ fState' = "idle"
    /\ fResult' = Pending
    /\ phase' = "none"
    /\ UNCHANGED <<args, net, xml, extracted>>

Idle ==
    /\ fUrl = ""
    /\ redirects = REDIRECTS
    /\ requests = 0
    /\ fState = "idle"
    /\ fResult = Pending
    /\ phase = "none"

Init ==
    /\ args \in ARGS
    /\ net = [u \in URLS |-> Unknown]
    /\ run = "first"
    /\ pc = "loop"
    /\ idx = 1
    /\ allItems = <<>>
    /\ errors = <<>>
    /\ Idle
    /\ concat = <<>>
    /\ output = NoOutput
    /\ prev = NoOutput
    /\ xml = <<>>
    /\ extracted = Returned(<<>>)

Next == CallFetch \/ Fetch \/ FeedResolved \/ FeedRejected \/ Exit \/ Finish \/ Rerun

Spec == Init /\ [][Next]_vars

(***************************************************************************)
(* One call of fetch(url)                                                  *)
(***************************************************************************)
InitFetch ==
    /\ args = <<>>
    /\ net = [u \in URLS |-> Unknown]
    /\ run = "first"
    /\ pc = "fetch"
    /\ idx = 1
    /\ allItems = <<>>
    /\ errors = <<>>
    /\ fUrl \in URLS
    /\ redirects = REDIRECTS
    /\ requests = 1
    /\ fState = "pending"
    /\ fResult = Pending
    /\ phase = "request"
    /\ concat = <<>>
    /\ output = NoOutput
    /\ prev = NoOutput
    /\ xml = <<>>
    /\ extracted = Returned(<<>>)

SpecFetch == InitFetch /\ [][Fetch]_vars

\* Every request gets a response, a transport error or a timeout, and every
\* event the connection has in store is delivered.
FairFetch == SpecFetch /\ WF_vars(Fetch)

(***************************************************************************)
(* One call of extractItems(xml, feedName, category)                       *)
(***************************************************************************)
InitExtract ==
    /\ args = <<>>
    /\ net = [u \in URLS |-> Unknown]
    /\ run = "first"
    /\ pc = "extract"
    /\ idx = 1
    /\ allItems = <<>>
    /\ errors = <<>>
    /\ Idle
    /\ concat = <<>>
    /\ output = NoOutput
    /\ prev = NoOutput
    /\ xml \in Docs
    /\ extracted = Returned(<<>>)

Extract ==
    /\ pc = "extract"
    /\ extracted' = extractItems(xml, "A", "general")
    /\ pc' = "extracted"
    /\ UNCHANGED <<args, net, run, idx, allItems, errors, FetchVars, concat, output, prev, xml>>

SpecExtract == InitExtract /\ [][Extract]_vars

(***************************************************************************)
(* main() from the end of the loop on, for any list the loop can leave     *)
(***************************************************************************)
LoopItems ==
    [ source : {"A"}, category : {"general"}, title : {HELLO},
      url : {"", "http://x/1", "http://x/2", "http://x/3"},
      published : {Null, Num(30 * MsPerHour), Num(48 * MsPerHour)} ]

InitSorted ==
    /\ args = <<>>
    /\ net = [u \in URLS |-> Unknown]
    /\ run = "first"
    /\ pc = "loop"
    /\ idx = Len(FEEDS) + 1
    /\ allItems \in SeqsUpTo(LoopItems, MaxItems)
    /\ errors = <<>>
    /\ Idle
    /\ concat = <<>>
    /\ output = NoOutput
    /\ prev = NoOutput
    /\ xml = <<>>
    /\ extracted = Returned(<<>>)

SpecSorted == InitSorted /\ [][Finish]_vars

(***************************************************************************)
(* Properties                                                              *)
(***************************************************************************)
Range(s) == {s[i] : i \in 1..Len(s)}

IsPrefix(s, t) == Len(s) <= Len(t) /\ SubSeq(t, 1, Len(s)) = s

Dated(item) == item.published # Null

\* The feed being awaited fails: its fetch rejected, or extraction threw.
FeedFails ==
    \/ fState = "rejected"
    \/ /\ fState = "resolved"
       /\ ~extractItems(fResult.body, FEEDS[idx].name, Category(FEEDS[idx])).ok

\* One pass of the loop body ends: the feed at idx is settled.
FeedSettles == pc = "await" /\ pc' = "loop"

FailureRecorded ==
    /\ allItems' = allItems
    /\ Len(errors') = Len(errors) + 1
    /\ IsPrefix(errors, errors')
    /\ errors'[Len(errors')].feed = FEEDS[idx].name

SuccessRecorded ==
    /\ errors' = errors
    /\ IsPrefix(allItems, allItems')
    /\ \A k \in (Len(allItems) + 1)..Len(allItems') :
           allItems'[k].source = FEEDS[idx].name

LoopStep ==
    /\ FeedSettles => idx' = idx + 1
    /\ FeedSettles /\ FeedFails => FailureRecorded
    /\ FeedSettles /\ ~FeedFails => SuccessRecorded
    /\ pc = "await" => pc' \in {"await", "loop"}
    /\ pc = "await" /\ pc' = "await" => idx' = idx /\ errors' = errors /\ allItems' = allItems
    /\ pc = "loop" /\ idx <= Len(FEEDS) /\ pc' # pc =>
           pc' = "await" /\ idx' = idx /\ fUrl' = FEEDS[idx].url /\ requests' = 1
    /\ pc' = "done" /\ pc # "done" => idx = Len(FEEDS) + 1

\* C1 as claimed: every feed is visited exactly once in list order; a feed
\* that fails (rejected fetch of any kind, or a fault during extraction) adds
\* exactly one error entry carrying its name and no items, a feed that
\* succeeds adds no error entry, and the loop goes on to the next feed after
\* either; the run ends only after the last feed, whatever a feed answers.
C1_EveryFeedOnce ==
    /\ [][LoopStep]_vars
    /\ [](pc \in {"done", "exit"} => idx = Len(FEEDS) + 1 /\ Len(errors) <= Len(FEEDS))

\* C2: the final sequence holds no two items with the same url and no item
\* with an empty url.
C2_UniqueUrls ==
    pc = "done" =>
        /\ \A i, j \in 1..Len(allItems) : allItems[i].url = allItems[j].url => i = j
        /\ \A i \in 1..Len(allItems) : allItems[i].url # ""

\* C2 witness: the loop left a repeated url and an empty url, and two items
\* survived.
C2_Witness ==
    /\ pc = "done"
    /\ Len(allItems) = 2
    /\ \E i, j \in 1..Len(concat) : i # j /\ concat[i].url = concat[j].url /\ concat[i].url # ""
    /\ \E i \in 1..Len(concat) : concat[i].url = ""

\* C3: in the final sequence adjacent dated items are in non-increasing order
\* of published, and no undated item precedes a dated one.
C3_NewestFirst ==
    pc = "done" =>
        /\ \A i \in 1..(Len(allItems) - 1) :
               Dated(allItems[i]) /\ Dated(allItems[i + 1]) =>
                   allItems[i].published[1] >= allItems[i + 1].published[1]
        /\ \A i, j \in 1..Len(allItems) :
               i < j /\ Dated(allItems[j]) => Dated(allItems[i])

\* C3 witness: the loop left an undated item first and an older item before a
\* newer one; the final sequence is newer, older, undated.
C3_Witness ==
    /\ pc = "done"
    /\ Len(allItems) = 3
    /\ Len(concat) = 3
    /\ ~Dated(concat[1])
    /\ Dated(concat[2]) /\ Dated(concat[3])
    /\ concat[2].published[1] < concat[3].published[1]
    /\ Dated(allItems[1]) /\ Dated(allItems[2]) /\ ~Dated(allItems[3])
    /\ allItems[1].published[1] > allItems[2].published[1]

\* The extracted item is inside the window of the run: undated, or published
\* at or after now - hours (no instant is at or after an invalid cutoff).
WithinWindow(x) ==
    \/ x.published = Null
    \/ HOURS # NaN /\ x.published[1] >= NOW - HOURS[1] * MsPerHour

WindowStep ==
    FeedSettles /\ ~FeedFails =>
        LET r == extractItems(fResult.body, FEEDS[idx].name, Category(FEEDS[idx]))
        IN  \A k \in 1..Len(r.items) :
                WithinWindow(r.items[k]) =>
                    \E n \in (Len(allItems) + 1)..Len(allItems') : allItems'[n] = r.items[k]

\* C4: every item of allItems, and so of the final sequence, is undated or
\* published at or after the cutoff; the time filter removes no undated item
\* and no item at or after the cutoff, however far in the future.
C4_TimeWindow ==
    /\ [](\A k \in 1..Len(allItems) : WithinWindow(allItems[k]))
    /\ [][WindowStep]_vars

\* C4 witness: with --hours 12 a feed served an item older than the cutoff,
\* and the final sequence holds a future-dated item and an undated one.
C4_Witness ==
    /\ pc = "done"
    /\ HOURS = Num(12)
    /\ \E u \in URLS : \E k \in 1..Len(net[u].body) :
           net[u].body[k].date = RawDate(31, 1)
    /\ \E x \in Range(allItems) : Dated(x) /\ x.published[1] > NOW
    /\ \E x \in Range(allItems) : ~Dated(x)

\* C5 as claimed: a titled item block whose date text is not a date is
\* emitted with published null and extractItems does not throw.
C5_InvalidDateIsNull ==
    pc = "extracted" =>
        \A i \in 1..Len(xml) :
            xml[i].tag = "item" /\ xml[i].title # <<>> /\ xml[i].date = Garbage =>
                /\ extracted.ok
                /\ \E x \in Range(extracted.items) :
                       x.url = xml[i].link /\ x.published = Null

\* Positions of concat holding the url u.
Holding(u) == {i \in 1..Len(concat) : concat[i].url = u}

\* C6 as claimed: the item kept for a url is the first item with that url in
\* the concatenation of the feeds' items.
C6_FirstInConcatKept ==
    pc = "done" =>
        \A x \in Range(allItems) :
            \E i \in Holding(x.url) :
                x = concat[i] /\ \A j \in Holding(x.url) : i <= j

\* The items of the titled blocks with the given tag, in document order.
TitledItems(doc, tag) ==
    LET Titled(b) == b.tag = tag /\ b.title # <<>>
        sel == SelectSeq(doc, Titled)
    IN  [i \in 1..Len(sel) |-> Item(sel[i], "A", "general")]

HasBlock(doc, tag) == \E i \in 1..Len(doc) : doc[i].tag = tag

\* C7 as claimed: for a document with at least one item block no returned
\* item comes from an entry block; for a document with no item block
\* extractItems returns exactly one item per entry block that has a non-empty
\* title, in document order (so at most one per entry block).
C7_AtomOnlyWithoutItemBlocks ==
    pc = "extracted" =>
        IF HasBlock(xml, "item")
        THEN Range(extracted.items) \subseteq Range(TitledItems(xml, "item"))
        ELSE extracted.ok /\ extracted.items = TitledItems(xml, "entry")

Settled == fState \in {"resolved", "rejected"}

\* A redirect answer arriving when no redirect is left rejects the fetch.
ExhaustedStep ==
    /\ fState = "pending"
    /\ phase = "request"
    /\ redirects = 0
    /\ net'[fUrl].kind = "response"
    /\ net'[fUrl].code >= 300
    /\ net'[fUrl].code < 400
    => /\ fState' = "rejected"
       /\ fResult' = Rejected(Msg("HTTP", net'[fUrl].code, fUrl))

\* C8 as claimed: one fetch issues at most 4 requests whatever the chain of
\* redirects, a redirect answer with no redirect left makes it fail, and,
\* every request being answered by a response, a transport error or a
\* timeout, it settles as resolved or rejected.
C8_BoundedRedirects ==
    /\ [](requests <= 4)
    /\ [][ExhaustedStep]_vars
    /\ (fState = "pending" ~> Settled)

\* C9 as claimed: with --top N the final output holds at most N items, the
\* first N of the sorted, deduplicated sequence.
C9_TopN ==
    pc = "done" /\ hasFlag(T_TOP) /\ ParseInt(getArg(T_TOP, <<>>)) # NaN /\ ~DRY_RUN =>
        LET n == ParseInt(getArg(T_TOP, <<>>))[1]
        IN  /\ Len(output.items) <= n
            /\ IsPrefix(output.items, allItems)

\* C10 as claimed: with the dedup cache enabled, the second run against the
\* unchanged feeds delivers no item.
C10_SecondRunEmpty ==
    run = "second" /\ pc = "done" /\ hasFlag(T_DEDUP) => Len(output.items) = 0

====
